---- MODULE Spec2Model ----
(***************************************************************************)
(* easy2acl.py: conversion of EasyChair exports to the ACLPUB layout.      *)
(* The script is a straight-line program; each action below is one of its  *)
(* stages, pc is the position in the script.                               *)
(*                                                                         *)
(* Strings that the script inspects character by character (the bib_url    *)
(* value, the formatted paper ids, the output file names) are sequences of *)
(* one-character strings.  Lines of the tab-separated files are sequences  *)
(* of tokens: a field value, "\t" or "\n".                                 *)
(***************************************************************************)
EXTENDS Integers, Sequences, FiniteSets, TLC

\* ------------------------------------------------------------------ bounds
MaxOmitted == 1
MaxChairs == 2
MaxAccepted == 2
MaxSubmissions == 2

\* ----------------------------------------------------------------- helpers
SeqsUpTo(S, n) == UNION {[1..k -> S] : k \in 0..n}

Last(s) == s[Len(s)]

Range(s) == {s[k] : k \in 1..Len(s)}

Min(S) == CHOOSE x \in S : \A y \in S : x <= y

Digit == {"0","1","2","3","4","5","6","7","8","9"}

Upper == {"A","B","C","D","E","F","G","H","I","J","K","L","M","N","O","P","Q","R","S","T","U","V","W","X","Y","Z"}

Whitespace == {" ", "\t", "\n"}

\* the character of s at position k, "" past the end
At(s, k) == IF k >= 1 /\ k <= Len(s) THEN s[k] ELSE ""

\* ---------------------------------------------------------- metadata keys
RequiredKeys == <<"abbrev", "title", "booktitle", "month", "year", "location", "publisher", "chairs", "bib_url">>

\* ------------------------------------------------------ bib_url regex match
UrlPrefixPattern == <<"h","t","t","p","s",":","/","/","w","w","w",".","a","c","l","w","e","b",".","o","r","g","/","a","n","t","h","o","l","o","g","y","/">>

NoMatch == <<>>

\* one pattern character against one subject character: an unescaped "."
\* matches any character but a newline
MatchChar(p, c) == IF p = "." THEN c # "" /\ c # "\n" ELSE c = p

MatchPrefix(s) == \A k \in 1..Len(UrlPrefixPattern) : MatchChar(UrlPrefixPattern[k], At(s, k))

\* position just after the longest run of digits of s starting at pos (\d+ is greedy)
RECURSIVE DigitRunEnd(_, _)
DigitRunEnd(s, pos) == IF At(s, pos) \in Digit THEN DigitRunEnd(s, pos + 1) ELSE pos

\* the pattern with \d+ in place of \d\d for the year
ReMatchLooseYear(s) ==
    LET p == Len(UrlPrefixPattern) + 1
        y == DigitRunEnd(s, p + 1)
        v == DigitRunEnd(s, y + 1)
        w == DigitRunEnd(s, v + 2)
    IN  IF /\ MatchPrefix(s)
           /\ At(s, p) \in Upper
           /\ y > p + 1
           /\ At(s, y) = "-"
           /\ v > y + 1
           /\ At(s, v) = "%"
           /\ At(s, v + 1) = "0"
           /\ w > v + 2
           /\ At(s, w) = "d"
        THEN <<SubSeq(s, p, p), SubSeq(s, p + 1, y - 1), SubSeq(s, y + 1, v - 1), SubSeq(s, v + 2, w - 1)>>
        ELSE NoMatch

\* re.match anchors at the start of the string only
ReMatch(s) ==
    LET p == Len(UrlPrefixPattern) + 1
        v == DigitRunEnd(s, p + 4)
        w == DigitRunEnd(s, v + 2)
    IN  IF /\ MatchPrefix(s)
           /\ At(s, p) \in Upper
           /\ At(s, p + 1) \in Digit
           /\ At(s, p + 2) \in Digit
           /\ At(s, p + 3) = "-"
           /\ v > p + 4
           /\ At(s, v) = "%"
           /\ At(s, v + 1) = "0"
           /\ w > v + 2
           /\ At(s, w) = "d"
        THEN <<SubSeq(s, p, p), SubSeq(s, p + 1, p + 2), SubSeq(s, p + 4, v - 1), SubSeq(s, v + 2, w - 1)>>
        ELSE NoMatch

\* ------------------------------------------------------------ line parsing
\* str.rstrip(): drop trailing whitespace
RECURSIVE RStrip(_)
RStrip(line) ==
    IF line # <<>> /\ Last(line) \in Whitespace
    THEN RStrip(SubSeq(line, 1, Len(line) - 1))
    ELSE line

\* str.split(sep): the fields between the separators, always at least one
RECURSIVE SplitAcc(_, _, _, _)
SplitAcc(line, sep, done, cur) ==
    IF line = <<>> THEN Append(done, cur)
    ELSE IF Head(line) = sep THEN SplitAcc(Tail(line), sep, Append(done, cur), <<>>)
    ELSE SplitAcc(Tail(line), sep, done, Append(cur, Head(line)))

Split(line, sep) == SplitAcc(line, sep, <<>>, <<>>)

\* the Python string a field stands for; fields of the modelled files hold
\* at most one token
StrOf(field) == IF field = <<>> THEN "" ELSE field[1]

\* str.replace(' and', ','): " and " becomes ", "
ReplaceAnd(field) == [k \in 1..Len(field) |-> IF field[k] = " and " THEN ", " ELSE field[k]]

\* line 80: entry[1].replace(' and', ',').split(', ')
ParseAuthors(field) ==
    LET parts == Split(ReplaceAnd(field), ", ")
    IN  [k \in 1..Len(parts) |-> StrOf(parts[k])]

\* lines 60-68, testing the third field in place of the last
RECURSIVE ParseAcceptedThirdField(_)
ParseAcceptedThirdField(lines) ==
    IF lines = <<>> THEN <<>>
    ELSE LET entry == Split(RStrip(Head(lines)), "\t")
         IN  IF entry[3] = <<"ACCEPT">>
             THEN <<<<StrOf(entry[1]), StrOf(entry[2])>>>> \o ParseAcceptedThirdField(Tail(lines))
             ELSE ParseAcceptedThirdField(Tail(lines))

\* lines 60-68
RECURSIVE ParseAccepted(_)
ParseAccepted(lines) ==
    IF lines = <<>> THEN <<>>
    ELSE LET entry == Split(RStrip(Head(lines)), "\t")
         IN  IF Last(entry) = <<"ACCEPT">>
             THEN <<<<StrOf(entry[1]), StrOf(entry[2])>>>> \o ParseAccepted(Tail(lines))
             ELSE ParseAccepted(Tail(lines))

\* lines 77-83
RECURSIVE ParseSubmissions(_)
ParseSubmissions(lines) ==
    IF lines = <<>> THEN <<>>
    ELSE LET entry == Split(RStrip(Head(lines)), "\t")
         IN  <<<<StrOf(entry[1]), StrOf(entry[3]), ParseAuthors(entry[2])>>>>
                 \o ParseSubmissions(Tail(lines))

\* lines 36-41: repeated "chairs" lines accumulate, other keys overwrite
RECURSIVE LoadMetadata(_, _)
LoadMetadata(md, lines) ==
    IF lines = <<>> THEN md
    ELSE LET key == Head(lines)[1]
             value == Head(lines)[2]
             nmd == IF key = "chairs"
                    THEN [md EXCEPT !["chairs"] = Append(@, value)]
                    ELSE [k \in DOMAIN md \cup {key} |-> IF k = key THEN value ELSE md[k]]
         IN  LoadMetadata(nmd, Tail(lines))

\* ------------------------------------------------------------------- join
\* lines 122-126, comparing the ids only
RECURSIVE FirstMatchById(_, _)
FirstMatchById(a, subs) ==
    IF subs = <<>> THEN <<>>
    ELSE IF Head(subs)[1] = a[1] THEN <<Head(subs)>>
    ELSE FirstMatchById(a, Tail(subs))

\* lines 122-126: the first submission with the same id and title
RECURSIVE FirstMatch(_, _)
FirstMatch(a, subs) ==
    IF subs = <<>> THEN <<>>
    ELSE IF Head(subs)[1] = a[1] /\ Head(subs)[2] = a[2] THEN <<Head(subs)>>
    ELSE FirstMatch(a, Tail(subs))

RECURSIVE JoinPapers(_, _)
JoinPapers(acc, subs) ==
    IF acc = <<>> THEN <<>>
    ELSE FirstMatch(Head(acc), subs) \o JoinPapers(Tail(acc), subs)

\* ------------------------------------------------------------- formatting
RECURSIVE DecimalDigits(_)
DecimalDigits(n) ==
    LET d == <<"0","1","2","3","4","5","6","7","8","9">>[(n % 10) + 1]
    IN  IF n < 10 THEN <<d>> ELSE Append(DecimalDigits(n \div 10), d)

DigitValue(c) == CHOOSE v \in 0..9 : DecimalDigits(v) = <<c>>

RECURSIVE DecimalValue(_)
DecimalValue(s) ==
    IF s = <<>> THEN 0
    ELSE 10 * DecimalValue(SubSeq(s, 1, Len(s) - 1)) + DigitValue(Last(s))

RECURSIVE ZeroPad(_, _)
ZeroPad(s, width) == IF Len(s) >= width THEN s ELSE ZeroPad(<<"0">> \o s, width)

\* line 152 without the zero fill: '{paper_id:d}'
FormatIdUnpadded(n, width) == DecimalDigits(n)

\* line 152: '{paper_id:0{width}d}'.format(...)
FormatId(n, width) == ZeroPad(DecimalDigits(n), DecimalValue(width))

\* line 153: the file name without directory and extension
AnthologyId(m, n) == m[1] \o m[2] \o <<"-">> \o m[3] \o FormatId(n, m[4])

\* line 153
DestPath(m, n) == <<"proceedings/cdrom/", "pdf", "/">> \o AnthologyId(m, n) \o <<".", "pdf">>

\* str.replace('pdf', 'bib')
ReplacePdfBib(path) == [k \in 1..Len(path) |-> IF path[k] = "pdf" THEN "bib" ELSE path[k]]

\* line 163: os.path.basename(dest_path).replace('.pdf', '')
BaseName(path) == SubSeq(path, 4, Len(path) - 2)

\* str.replace('bib', 'pdf')
ReplaceBibPdf(path) == [k \in 1..Len(path) |-> IF path[k] = "bib" THEN "pdf" ELSE path[k]]

\* a map with one entry added or overwritten
Put(f, k, v) == [x \in DOMAIN f \cup {k} |-> IF x = k THEN v ELSE f[x]]

\* ------------------------------------------------------------ bibliography
\* unicode_to_tex: non-ASCII symbols become LaTeX escapes
UnicodeToTex(tok) == IF tok = "Ö" THEN "\\\"{O}" ELSE tok

\* ' and '.join(authors)
RECURSIVE JoinAnd(_)
JoinAnd(authors) ==
    IF authors = <<>> THEN <<>>
    ELSE IF Len(authors) = 1 THEN authors
    ELSE <<Head(authors), "and">> \o JoinAnd(Tail(authors))

\* lines 23-28, on the whitespace-separated tokens of the string
texify(tokens) == [k \in 1..Len(tokens) |-> UnicodeToTex(tokens[k])]

\* lines 163-181
BibEntry(entry, anthology_id, md, abs) ==
    LET bib_type == IF entry[1] # "0" THEN "inproceedings" ELSE "proceedings"
    IN  [ key |-> anthology_id,
          type |-> bib_type,
          author |-> texify(JoinAnd(entry[3])),
          title |-> entry[2],
          year |-> md["year"],
          month |-> md["month"],
          address |-> md["location"],
          publisher |-> md["publisher"],
          abstract |-> IF entry[1] \in DOMAIN abs THEN <<abs[entry[1]]>> ELSE <<>>,
          booktitle |-> IF bib_type = "inproceedings" THEN <<md["booktitle"]>> ELSE <<>> ]

\* ------------------------------------------------------------------ inputs
AclPrefix == <<"h","t","t","p","s",":","/","/","w","w","w",".","a","c","l","w","e","b",".","o","r","g","/","a","n","t","h","o","l","o","g","y","/">>

HostPrefix == <<"h","t","t","p","s",":","/","/","h","o","s","t","/","a","n","t","h","o","l","o","g","y","/">>

AclPrefixNoDots == <<"h","t","t","p","s",":","/","/","w","w","w","x","a","c","l","w","e","b","x","o","r","g","/","a","n","t","h","o","l","o","g","y","/">>

UrlTail == <<"W","1","9","-","0","%","0","2","d">>

AclExampleUrl == AclPrefix \o UrlTail

HostExampleUrl == HostPrefix \o UrlTail

UrlInputs ==
    { p \o l \o y \o s \o v \o f \o w \o e \o t :
        p \in {AclPrefix, HostPrefix, AclPrefixNoDots},
        l \in {<<"W">>, <<"w">>},
        y \in {<<"1","9">>, <<"1">>},
        s \in {<<"-">>, <<"_">>},
        v \in {<<"0">>, <<"1","2">>, <<>>},
        f \in {<<"%","0">>, <<"%">>},
        w \in {<<"2">>, <<"0","2">>, <<>>},
        e \in {<<"d">>, <<"s">>},
        t \in {<<>>, <<"x">>} }

MetaValue(key, url) ==
    CASE key = "abbrev" -> "X"
      [] key = "year" -> "2019"
      [] key = "bib_url" -> url
      [] key = "booktitle" -> "Proceedings of X"
      [] OTHER -> "v"

ChairNames == <<"Ann Lee", "Bo Ö">>

\* the value of the j-th "chairs" line
ChairName(j) == ChairNames[((j - 1) % Len(ChairNames)) + 1]

\* the lines of a 'meta' file, one per key that is not omitted, one per chair
RECURSIVE MetaLines(_, _, _, _)
MetaLines(keys, omitted, nchairs, url) ==
    IF keys = <<>> THEN <<>>
    ELSE LET k == Head(keys)
             here == IF k \in omitted THEN <<>>
                     ELSE IF k = "chairs" THEN [j \in 1..nchairs |-> <<"chairs", ChairName(j)>>]
                     ELSE <<<<k, MetaValue(k, url)>>>>
         IN  here \o MetaLines(Tail(keys), omitted, nchairs, url)

\* a row of fields as a line of the file
RECURSIVE JoinTabs(_)
JoinTabs(row) ==
    IF Len(row) = 1 THEN row ELSE <<Head(row), "\t">> \o JoinTabs(Tail(row))

LineOf(row) == JoinTabs(row) \o <<"\n">>

Ids == {"1", "2"}

Titles == {"T", "U"}

Decisions == {"ACCEPT", "REJECT", "accept"}

\* decision rows: id, title, decision, or id, title, track, decision
DecisionRows ==
    {<<i, "T", d>> : i \in Ids, d \in Decisions}
        \cup {<<i, "T", d1, d2>> : i \in Ids, d1 \in {"ACCEPT"}, d2 \in Decisions}

AcceptRows == { <<"1", "T", "ACCEPT">>, <<"2", "T", "ACCEPT">>, <<"1", "U", "ACCEPT">> }

AuthorFields == { <<"A">>, <<"A", ", ", "Ö", " and ", "B">> }

\* a submission line: id, authors, title
SubmissionLine(i, a, t) == <<i, "\t">> \o a \o <<"\t", t, "\n">>

SubmissionLines ==
    { SubmissionLine("1", a, "T") : a \in AuthorFields }
        \cup { SubmissionLine("1", <<"A">>, "U"), SubmissionLine("2", <<"A">>, "T") }

BaseRows == << <<"1", "T", "ACCEPT">>, <<"2", "U", "ACCEPT">> >>

BaseAccepted == [k \in 1..Len(BaseRows) |-> LineOf(BaseRows[k])]

BaseSubmissions == << <<"1", "\t", "A", "\t", "T", "\n">>, <<"2", "\t", "A", " and ", "B", "\t", "U", "\n">> >>

FullPdf == <<"X", "2019">>

FrontmatterPdf == <<"X", "2019", "frontmatter">>

PaperPdf(id) == <<"X", "2019", "paper", id>>

PdfCandidates == { FullPdf, FrontmatterPdf, PaperPdf("1"), PaperPdf("2"), PaperPdf("0"), <<"X", "2019", "paper", "v2", "1">> }

BasePdfDir == { FullPdf, FrontmatterPdf, PaperPdf("1"), PaperPdf("2") }

NoCsv == [exists |-> FALSE, rows |-> <<>>]

CsvInputs == { NoCsv, [exists |-> TRUE, rows |-> << <<"1", "abs1">>, <<"3", "abs3">> >>] }

\* ------------------------------------------------------------------- state
VARIABLES
    meta_file, accepted_file, submissions_file, csv_file, pdf_dir, unencodable,
    pc, metadata, match, accepted, submissions, abstracts, pdfs, final_papers,
    idx, paper_id, dest_path, final_bibs,
    out_dirs, out_meta, out_pdf, out_bib, out_vol,
    stdout, stderr, exit_code, fatal, io

inputs == <<meta_file, accepted_file, submissions_file, csv_file, pdf_dir, unencodable>>

data == <<metadata, match, accepted, submissions, abstracts, pdfs, final_papers>>

loop == <<idx, paper_id, dest_path, final_bibs>>

outputs == <<out_dirs, out_meta, out_pdf, out_bib, out_vol>>

streams == <<stdout, stderr>>

vars == <<inputs, pc, data, loop, outputs, streams, exit_code, fatal, io>>

EmptyMap == [x \in {} |-> x]

\* the state before the first statement of a run on the given input files
InitFrom(om, nc, url, acc, subs, dir, csv, unenc) ==
    /\ meta_file = MetaLines(RequiredKeys, om, nc, url)
    /\ accepted_file = acc
    /\ submissions_file = subs
    /\ csv_file = csv
    /\ pdf_dir = dir
    /\ unencodable = unenc
    /\ pc = "load_meta"
    /\ metadata = EmptyMap
    /\ match = NoMatch
    /\ accepted = <<>>
    /\ submissions = <<>>
    /\ abstracts = EmptyMap
    /\ pdfs = EmptyMap
    /\ final_papers = <<>>
    /\ idx = 0
    /\ paper_id = 0
    /\ dest_path = <<>>
    /\ final_bibs = <<>>
    /\ out_dirs = {}
    /\ out_meta = FALSE
    /\ out_pdf = EmptyMap
    /\ out_bib = EmptyMap
    /\ out_vol = EmptyMap
    /\ stdout = <<>>
    /\ stderr = <<>>
    /\ exit_code = -1
    /\ fatal = "none"
    /\ io = <<>>

\* runs with keys omitted from 'meta' and one or more chairs
InitMeta ==
    \E om \in {o \in SUBSET Range(RequiredKeys) : Cardinality(o) <= MaxOmitted}, nc \in 1..MaxChairs :
        InitFrom(om, nc, AclExampleUrl, BaseAccepted, BaseSubmissions, BasePdfDir, NoCsv, {})

\* runs with varied bib_url values
InitUrl ==
    \E url \in UrlInputs :
        InitFrom({}, 1, url, BaseAccepted, BaseSubmissions, BasePdfDir, NoCsv, {})

\* runs with varied 'accepted' files
InitAccepted ==
    \E rows \in SeqsUpTo(DecisionRows, MaxAccepted) :
        InitFrom({}, 1, AclExampleUrl, [k \in DOMAIN rows |-> LineOf(rows[k])],
                 BaseSubmissions, BasePdfDir, NoCsv, {})

\* runs with varied 'accepted' and 'submissions' files
InitJoin ==
    \E rows \in SeqsUpTo(AcceptRows, MaxAccepted), subs \in SeqsUpTo(SubmissionLines, MaxSubmissions) :
        InitFrom({}, 1, AclExampleUrl, [k \in DOMAIN rows |-> LineOf(rows[k])],
                 subs, BasePdfDir, NoCsv, {})

\* runs with varied pdf directories, abstract tables and encoding failures
InitFiles ==
    \E dir \in SUBSET PdfCandidates, csv \in CsvInputs, unenc \in {{}, {"0"}, {"2"}} :
        InitFrom({}, 1, AclExampleUrl, BaseAccepted, BaseSubmissions, dir, csv, unenc)

Init == InitMeta \/ InitUrl \/ InitAccepted \/ InitJoin \/ InitFiles

\* sys.exit(1) after a fatal message on the given stream
Abort(reason, msg, toStderr) ==
    /\ pc' = "exit"
    /\ exit_code' = 1
    /\ fatal' = reason
    /\ stdout' = IF toStderr THEN stdout ELSE Append(stdout, msg)
    /\ stderr' = IF toStderr THEN Append(stderr, msg) ELSE stderr

\* lines 34-41
LoadMeta ==
    /\ pc = "load_meta"
    /\ metadata' = LoadMetadata([k \in {"chairs"} |-> <<>>], meta_file)
    /\ io' = Append(io, "read meta")
    /\ pc' = "check_keys"
    /\ UNCHANGED <<inputs, match, accepted, submissions, abstracts, pdfs, final_papers,
                   loop, outputs, streams, exit_code, fatal>>

MissingKeys == SelectSeq(RequiredKeys, LAMBDA k : k \notin DOMAIN metadata)

\* lines 43-46
CheckKeys ==
    /\ pc = "check_keys"
    /\ IF MissingKeys # <<>>
       THEN Abort("missing_key", "Fatal: missing key from meta file", FALSE)
       ELSE /\ pc' = "parse_url"
            /\ UNCHANGED <<streams, exit_code, fatal>>
    /\ UNCHANGED <<inputs, data, loop, outputs, io>>

\* lines 48-52
ParseUrl ==
    /\ pc = "parse_url"
    /\ LET m == ReMatch(metadata["bib_url"])
       IN  IF m = NoMatch
           THEN /\ Abort("bad_url", "Fatal: bib_url field in meta file has wrong pattern", TRUE)
                /\ UNCHANGED match
           ELSE /\ match' = m
                /\ pc' = "read_accepted"
                /\ UNCHANGED <<streams, exit_code, fatal>>
    /\ UNCHANGED <<inputs, metadata, accepted, submissions, abstracts, pdfs, final_papers,
                   loop, outputs, io>>

\* lines 57-69
ReadAccepted ==
    /\ pc = "read_accepted"
    /\ accepted' = ParseAccepted(accepted_file)
    /\ stdout' = Append(stdout, "Found accepted files")
    /\ io' = Append(io, "read accepted")
    /\ pc' = "read_submissions"
    /\ UNCHANGED <<inputs, metadata, match, submissions, abstracts, pdfs, final_papers,
                   loop, outputs, stderr, exit_code, fatal>>

\* lines 74-84
ReadSubmissions ==
    /\ pc = "read_submissions"
    /\ submissions' = ParseSubmissions(submissions_file)
    /\ stdout' = Append(stdout, "Found submitted files")
    /\ io' = Append(io, "read submissions")
    /\ pc' = "read_abstracts"
    /\ UNCHANGED <<inputs, metadata, match, accepted, abstracts, pdfs, final_papers,
                   loop, outputs, stderr, exit_code, fatal>>

\* lines 91-92: abstracts[row['#']] = row['abstract']
RECURSIVE LoadAbstracts(_, _)
LoadAbstracts(abs, rows) ==
    IF rows = <<>> THEN abs
    ELSE LoadAbstracts(Put(abs, Head(rows)[1], Head(rows)[2]), Tail(rows))

\* lines 87-93
ReadAbstracts ==
    /\ pc = "read_abstracts"
    /\ IF csv_file.exists
       THEN /\ abstracts' = LoadAbstracts(EmptyMap, csv_file.rows)
            /\ stdout' = Append(stdout, "Found abstracts")
            /\ io' = io \o <<"stat submission.csv", "read submission.csv">>
       ELSE /\ io' = Append(io, "stat submission.csv")
            /\ UNCHANGED <<abstracts, stdout>>
    /\ pc' = "check_full_pdf"
    /\ UNCHANGED <<inputs, metadata, match, accepted, submissions, pdfs, final_papers,
                   loop, outputs, stderr, exit_code, fatal>>

\* lines 100-101
full_pdf_file == <<metadata["abbrev"], metadata["year"]>>

\* lines 107-108
frontmatter_pdf_file == <<metadata["abbrev"], metadata["year"], "frontmatter">>

\* lines 100-104
CheckFullPdf ==
    /\ pc = "check_full_pdf"
    /\ io' = Append(io, "stat full pdf")
    /\ IF full_pdf_file \notin pdf_dir
       THEN Abort("no_full_pdf", "Fatal: could not find full volume PDF", FALSE)
       ELSE /\ pc' = "check_frontmatter"
            /\ UNCHANGED <<streams, exit_code, fatal>>
    /\ UNCHANGED <<inputs, data, loop, outputs>>

\* lines 107-111
CheckFrontmatter ==
    /\ pc = "check_frontmatter"
    /\ io' = Append(io, "stat frontmatter pdf")
    /\ IF frontmatter_pdf_file \notin pdf_dir
       THEN Abort("no_frontmatter_pdf", "Fatal: could not find frontmatter PDF file", FALSE)
       ELSE /\ pc' = "glob_pdfs"
            /\ UNCHANGED <<streams, exit_code, fatal>>
    /\ UNCHANGED <<inputs, data, loop, outputs>>

\* line 115: the files matching pdf/{abbrev}_{year}_paper_*.pdf
GlobMatches == { f \in pdf_dir : Len(f) >= 4 /\ f[1] = metadata["abbrev"]
                                   /\ f[2] = metadata["year"] /\ f[3] = "paper" }

\* line 116: pdf_file.split('_')[-1].replace('.pdf', '')
PdfSubmissionId(f) == Last(f)

\* lines 114-117: glob returns the files in arbitrary order, the last file
\* seen for an id stays in the registry
GlobPdfs ==
    /\ pc = "glob_pdfs"
    /\ LET ids == {PdfSubmissionId(f) : f \in GlobMatches}
       IN  \E pick \in [ids -> GlobMatches] :
              /\ \A id \in ids : PdfSubmissionId(pick[id]) = id
              /\ pdfs' = [id \in ids \cup {"0"} |->
                             IF id \in ids THEN pick[id] ELSE frontmatter_pdf_file]
    /\ io' = Append(io, "glob pdf")
    /\ pc' = "join"
    /\ UNCHANGED <<inputs, metadata, match, accepted, submissions, abstracts, final_papers,
                   loop, outputs, streams, exit_code, fatal>>

\* lines 120-126
Join ==
    /\ pc = "join"
    /\ final_papers' = << <<"0", metadata["booktitle"], metadata["chairs"]>> >>
                           \o JoinPapers(accepted, submissions)
    /\ pc' = "make_dirs"
    /\ UNCHANGED <<inputs, metadata, match, accepted, submissions, abstracts, pdfs,
                   loop, outputs, streams, exit_code, fatal, io>>

\* lines 133-136
MakeDirs ==
    /\ pc = "make_dirs"
    /\ out_dirs' = out_dirs \cup {"proceedings/cdrom/bib", "proceedings/cdrom/pdf"}
    /\ io' = Append(io, "makedirs")
    /\ pc' = "copy_meta"
    /\ UNCHANGED <<inputs, data, loop, out_meta, out_pdf, out_bib, out_vol,
                   streams, exit_code, fatal>>

\* lines 139-142
CopyMeta ==
    /\ pc = "copy_meta"
    /\ out_meta' = TRUE
    /\ stderr' = Append(stderr, "COPYING meta")
    /\ io' = Append(io, "copy meta")
    /\ idx' = 1
    /\ paper_id' = 0
    /\ final_bibs' = <<>>
    /\ pc' = "emit"
    /\ UNCHANGED <<inputs, data, dest_path, out_dirs, out_pdf, out_bib, out_vol,
                   stdout, exit_code, fatal>>

\* lines 144-157, skipping a paper that has no PDF
EmitPdfSkipMissing ==
    /\ pc = "emit"
    /\ idx <= Len(final_papers)
    /\ LET submission_id == final_papers[idx][1]
       IN  IF submission_id \notin DOMAIN pdfs
           THEN /\ idx' = idx + 1
                /\ UNCHANGED <<pc, paper_id, dest_path, out_pdf, streams, exit_code, fatal, io>>
           ELSE /\ dest_path' = DestPath(match, paper_id)
                /\ paper_id' = paper_id + 1
                /\ out_pdf' = Put(out_pdf, dest_path', pdfs[submission_id])
                /\ stderr' = Append(stderr, "COPYING pdf")
                /\ io' = Append(io, "copy pdf")
                /\ pc' = "emit_bib"
                /\ UNCHANGED <<idx, stdout, exit_code, fatal>>
    /\ UNCHANGED <<inputs, data, final_bibs, out_dirs, out_meta, out_bib, out_vol>>

\* lines 144-157
EmitPdf ==
    /\ pc = "emit"
    /\ idx <= Len(final_papers)
    /\ LET submission_id == final_papers[idx][1]
       IN  IF submission_id \notin DOMAIN pdfs
           THEN /\ Abort("no_paper_pdf", "Fatal: no PDF found for paper", TRUE)
                /\ UNCHANGED <<paper_id, dest_path, out_pdf, io>>
           ELSE /\ dest_path' = DestPath(match, paper_id)
                /\ paper_id' = paper_id + 1
                /\ out_pdf' = Put(out_pdf, dest_path', pdfs[submission_id])
                /\ stderr' = Append(stderr, "COPYING pdf")
                /\ io' = Append(io, "copy pdf")
                /\ pc' = "emit_bib"
                /\ UNCHANGED <<stdout, exit_code, fatal>>
    /\ UNCHANGED <<inputs, data, idx, final_bibs, out_dirs, out_meta, out_bib, out_vol>>

\* lines 159-191, with final_bibs = [bib_string] in place of the append
EmitBibOverwrite ==
    /\ pc = "emit_bib"
    /\ LET entry == final_papers[idx]
           bib_path == ReplacePdfBib(dest_path)
           bib_entry == BibEntry(entry, BaseName(dest_path), metadata, abstracts)
       IN  IF entry[1] \in unencodable
           THEN /\ Abort("bibtex", "Fatal: Error in BibTeX-encoding paper", TRUE)
                /\ UNCHANGED <<idx, final_bibs, out_bib, io>>
           ELSE /\ final_bibs' = <<bib_entry>>
                /\ out_bib' = Put(out_bib, bib_path, bib_entry)
                /\ stdout' = Append(stdout, "CREATED bib")
                /\ io' = Append(io, "write bib")
                /\ idx' = idx + 1
                /\ pc' = "emit"
                /\ UNCHANGED <<stderr, exit_code, fatal>>
    /\ UNCHANGED <<inputs, data, paper_id, dest_path, out_dirs, out_meta, out_pdf, out_vol>>

\* lines 159-191; to_string raises TypeError for the records of the
\* submissions in unencodable
EmitBib ==
    /\ pc = "emit_bib"
    /\ LET entry == final_papers[idx]
           bib_path == ReplacePdfBib(dest_path)
           bib_entry == BibEntry(entry, BaseName(dest_path), metadata, abstracts)
       IN  IF entry[1] \in unencodable
           THEN /\ Abort("bibtex", "Fatal: Error in BibTeX-encoding paper", TRUE)
                /\ UNCHANGED <<idx, final_bibs, out_bib, io>>
           ELSE /\ final_bibs' = Append(final_bibs, bib_entry)
                /\ out_bib' = Put(out_bib, bib_path, bib_entry)
                /\ stdout' = Append(stdout, "CREATED bib")
                /\ io' = Append(io, "write bib")
                /\ idx' = idx + 1
                /\ pc' = "emit"
                /\ UNCHANGED <<stderr, exit_code, fatal>>
    /\ UNCHANGED <<inputs, data, paper_id, dest_path, out_dirs, out_meta, out_pdf, out_vol>>

\* lines 194-195
dest_bib == <<"proceedings/cdrom/", metadata["abbrev"], "-", metadata["year"], ".", "bib">>

\* lines 194-198
WriteVolumeBib ==
    /\ pc = "emit"
    /\ idx > Len(final_papers)
    /\ out_vol' = Put(out_vol, dest_bib, final_bibs)
    /\ stdout' = Append(stdout, "CREATED volume bib")
    /\ io' = Append(io, "write volume bib")
    /\ pc' = "copy_volume_pdf"
    /\ UNCHANGED <<inputs, data, loop, out_dirs, out_meta, out_pdf, out_bib,
                   stderr, exit_code, fatal>>

\* lines 201-203, then the script ends
CopyVolumePdf ==
    /\ pc = "copy_volume_pdf"
    /\ out_vol' = Put(out_vol, ReplaceBibPdf(dest_bib), full_pdf_file)
    /\ stderr' = Append(stderr, "COPYING volume pdf")
    /\ io' = Append(io, "copy volume pdf")
    /\ pc' = "done"
    /\ exit_code' = 0
    /\ UNCHANGED <<inputs, data, loop, out_dirs, out_meta, out_pdf, out_bib,
                   stdout, fatal>>

Next ==
    \/ LoadMeta
    \/ CheckKeys
    \/ ParseUrl
    \/ ReadAccepted
    \/ ReadSubmissions
    \/ ReadAbstracts
    \/ CheckFullPdf
    \/ CheckFrontmatter
    \/ GlobPdfs
    \/ Join
    \/ MakeDirs
    \/ CopyMeta
    \/ EmitPdf
    \/ EmitBib
    \/ WriteVolumeBib
    \/ CopyVolumePdf

Spec == Init /\ [][Next]_vars

\* ------------------------------------------------------------ properties
NoOutput ==
    /\ out_dirs = {}
    /\ out_meta = FALSE
    /\ out_pdf = EmptyMap
    /\ out_bib = EmptyMap
    /\ out_vol = EmptyMap

\* the required keys that no line of the 'meta' file carries
OmittedKeys == { k \in Range(RequiredKeys) : \A j \in 1..Len(meta_file) : meta_file[j][1] # k }

FatalMessages ==
    { "Fatal: missing key from meta file",
      "Fatal: bib_url field in meta file has wrong pattern",
      "Fatal: could not find full volume PDF",
      "Fatal: could not find frontmatter PDF file",
      "Fatal: no PDF found for paper",
      "Fatal: Error in BibTeX-encoding paper" }

\* C1: a run whose 'meta' file omits a required key ends in a fatal abort,
\* having read nothing but 'meta' and created no output.
C1_MissingKeyAborts ==
    (OmittedKeys # {} /\ pc \notin {"load_meta", "check_keys"})
        => /\ pc = "exit"
           /\ fatal = "missing_key"
           /\ exit_code = 1
           /\ io = <<"read meta">>
           /\ NoOutput

\* the bib_url line has been matched against the pattern
UrlParsed ==
    /\ pc \notin {"load_meta", "check_keys", "parse_url"}
    /\ fatal # "missing_key"

\* the tail <letter><two digits>-<digits>%0<digits>d of a bib_url, from position p on,
\* with nv volume digits and nw width digits
TailAt(s, p, nv, nw) ==
    /\ At(s, p) \in Upper
    /\ At(s, p + 1) \in Digit
    /\ At(s, p + 2) \in Digit
    /\ At(s, p + 3) = "-"
    /\ \A k \in 1..nv : At(s, p + 3 + k) \in Digit
    /\ At(s, p + 4 + nv) = "%"
    /\ At(s, p + 5 + nv) = "0"
    /\ \A k \in 1..nw : At(s, p + 5 + nv + k) \in Digit
    /\ At(s, p + 6 + nv + nw) = "d"

TailFields(s, p, nv, nw) ==
    << <<s[p]>>, <<s[p + 1], s[p + 2]>>, SubSeq(s, p + 4, p + 3 + nv),
       SubSeq(s, p + 6 + nv, p + 5 + nv + nw) >>

\* s is a protocol/host prefix ending in /anthology/, then the whole tail
HasFullStructure(s) ==
    \E n \in 19..Len(s) :
        /\ SubSeq(s, 1, 8) = <<"h","t","t","p","s",":","/","/">>
        /\ SubSeq(s, n - 10, n) = <<"/","a","n","t","h","o","l","o","g","y","/">>
        /\ \E nv \in 1..(Len(s) - n), nw \in 1..(Len(s) - n) :
              /\ TailAt(s, n + 1, nv, nw)
              /\ Len(s) = n + 7 + nv + nw

\* C2 (as stated): https://host/anthology/W19-0%02d yields (W, 19, 0, 2), and
\* every value without the full structure aborts the run.
C2_HostUrlParsed ==
    UrlParsed =>
        /\ metadata["bib_url"] = HostExampleUrl
              => match = << <<"W">>, <<"1","9">>, <<"0">>, <<"2">> >>
        /\ ~HasFullStructure(metadata["bib_url"]) => fatal = "bad_url"

\* s begins with https://www.aclweb.org/anthology/, either dot being any
\* character
BeginsWithAclPrefix(s) ==
    \A k \in 1..Len(AclPrefix) :
        IF AclPrefix[k] = "." THEN At(s, k) \notin {"", "\n"} ELSE At(s, k) = AclPrefix[k]

\* the numbers of volume and width digits with which s begins with the
\* prefix followed by the tail
AclStructureFits(s) ==
    IF BeginsWithAclPrefix(s)
    THEN LET room == Len(s) - Len(AclPrefix) - 8
         IN  { nn \in (1..room) \X (1..room) : TailAt(s, Len(AclPrefix) + 1, nn[1], nn[2]) }
    ELSE {}

\* C2 (amended): https://www.aclweb.org/anthology/W19-0%02d yields
\* (W, 19, 0, 2); a value that does not begin with the structure aborts the
\* run with status 1 and yields no derived fields; a value that does begin
\* with it yields its letter, year, volume and width.
C2_UrlParse ==
    UrlParsed =>
        LET s == metadata["bib_url"]
            fits == AclStructureFits(s)
        IN  /\ s = AclExampleUrl => match = << <<"W">>, <<"1","9">>, <<"0">>, <<"2">> >>
            /\ fits = {} => (pc = "exit" /\ fatal = "bad_url" /\ exit_code = 1 /\ match = NoMatch)
            /\ \A nn \in fits :
                  /\ fatal # "bad_url"
                  /\ match = TailFields(s, Len(AclPrefix) + 1, nn[1], nn[2])

C2_Witness ==
    /\ pc = "read_accepted"
    /\ metadata["bib_url"] = AclExampleUrl \o <<"x">>
    /\ match = << <<"W">>, <<"1","9">>, <<"0">>, <<"2">> >>

\* the 'accepted' file has been read
AcceptedRead ==
    /\ pc \notin {"load_meta", "check_keys", "parse_url", "read_accepted"}
    /\ fatal \notin {"missing_key", "bad_url"}

\* the row of fields that a line of the 'accepted' file carries
RowOfLine(line) == CHOOSE row \in DecisionRows \cup AcceptRows \cup Range(BaseRows) : LineOf(row) = line

Joined ==
    \/ pc \in {"make_dirs", "copy_meta", "emit", "emit_bib", "copy_volume_pdf", "done"}
    \/ pc = "exit" /\ fatal \in {"no_paper_pdf", "bibtex"}

\* the positions of the submissions with the id and title of a decision
MatchingSubmissions(a) ==
    { j \in 1..Len(submissions) : submissions[j][1] = a[1] /\ submissions[j][2] = a[2] }

\* C4: the final-paper list is the frontmatter entry followed by, for each
\* accepted decision in order, the first submission with its id and title;
\* decisions without such a submission contribute nothing.
C4_JoinCorrect ==
    Joined =>
        LET hits == SelectSeq(accepted, LAMBDA a : MatchingSubmissions(a) # {})
        IN  /\ Len(final_papers) = Len(hits) + 1
            /\ final_papers[1] = <<"0", metadata["booktitle"], metadata["chairs"]>>
            /\ \A k \in 1..Len(hits) :
                  final_papers[k + 1] = submissions[Min(MatchingSubmissions(hits[k]))]

C4_Witness ==
    /\ pc = "make_dirs"
    /\ Len(submissions) = 2
    /\ submissions[1][1] = submissions[2][1]
    /\ submissions[1][2] = submissions[2][2]
    /\ submissions[1][3] # submissions[2][3]
    /\ Len(accepted) = 2
    /\ Len(final_papers) = 2
    /\ final_papers[2] = submissions[1]

\* the digits of the paper id in an output path
IdDigits(path) ==
    SubSeq(path, 4 + Len(match[1]) + Len(match[2]) + 1 + Len(match[3]), Len(path) - 2)

\* f is n written in decimal, zero-padded to the width
IsPadded(f, n, width) ==
    /\ Range(f) \subseteq Digit
    /\ DecimalValue(f) = n
    /\ Len(f) >= width
    /\ Len(f) > width => f = DecimalDigits(n)

\* C5: the identifiers assigned are 0, 1, ..., without gap or repeat, 0 to
\* the frontmatter and k to the k-th final paper, zero-padded to the width
\* of the bib_url; a completed run has assigned 0..N.
C5_DenseIds ==
    Joined =>
        /\ Cardinality(DOMAIN out_pdf) = paper_id
        /\ \A k \in 0..(paper_id - 1) :
              \E path \in DOMAIN out_pdf :
                 /\ IsPadded(IdDigits(path), k, DecimalValue(match[4]))
                 /\ ReplacePdfBib(path) \in DOMAIN out_bib
                       => /\ out_bib[ReplacePdfBib(path)].title = final_papers[k + 1][2]
                          /\ out_bib[ReplacePdfBib(path)].key = BaseName(path)
        /\ pc = "done" => /\ paper_id = Len(final_papers)
                          /\ Cardinality(DOMAIN out_bib) = paper_id

C5_Witness ==
    /\ pc = "done"
    /\ Len(final_papers) = 3
    /\ final_papers[2][2] # final_papers[3][2]

\* the positions of the final papers that have no entry in the PDF registry
MissingPdf == { k \in 1..Len(final_papers) : final_papers[k][1] \notin DOMAIN pdfs }

\* C6: a final paper without a PDF in the registry is fatal as soon as the
\* loop reaches it: the run exits with status 1, never goes past the paper
\* and never completes; a completed run has a PDF for every final paper.
C6_MissingPdfFatal ==
    Joined =>
        /\ MissingPdf # {} =>
              /\ pc \notin {"copy_volume_pdf", "done"}
              /\ exit_code # 0
              /\ idx <= Min(MissingPdf)
              /\ pc = "emit_bib" => idx < Min(MissingPdf)
              /\ out_vol = EmptyMap
        /\ (pc = "exit" /\ fatal = "no_paper_pdf") =>
              /\ exit_code = 1
              /\ MissingPdf # {}
              /\ idx = Min(MissingPdf)
        /\ pc = "done" => Cardinality(DOMAIN out_pdf) = Len(final_papers)

C6_Witness ==
    /\ pc = "exit"
    /\ fatal = "no_paper_pdf"
    /\ exit_code = 1
    /\ final_papers[idx][1] = "2"

\* C7: in a completed run the output PDF with paper id 0 is a copy of the
\* frontmatter PDF, and the one with paper id k >= 1 a copy of
\* pdf/<abbrev>_<year>_paper_<id>.pdf for the id of the k-th final paper.
C7_SourcePdf ==
    pc = "done" =>
        \A k \in 1..Len(final_papers) :
            /\ DestPath(match, k - 1) \in DOMAIN out_pdf
            /\ out_pdf[DestPath(match, k - 1)] =
                  IF k = 1 THEN frontmatter_pdf_file
                  ELSE <<metadata["abbrev"], metadata["year"], "paper", final_papers[k][1]>>

\* the volume-level files of the output
VolumeBibs == { p \in DOMAIN out_vol : Last(p) = "bib" }

\* C8: a completed run with N matched papers has N+1 output PDFs, N+1
\* bibliography files and one volume bibliography of N+1 records, the
\* frontmatter record first, then the papers in final-list order.
C8_OutputComplete ==
    pc = "done" =>
        LET n == Len(final_papers)
        IN  /\ Cardinality(DOMAIN out_pdf) = n
            /\ Cardinality(DOMAIN out_bib) = n
            /\ VolumeBibs = {dest_bib}
            /\ Len(out_vol[dest_bib]) = n
            /\ out_vol[dest_bib][1].type = "proceedings"
            /\ \A k \in 1..n :
                  /\ out_vol[dest_bib][k].title = final_papers[k][2]
                  /\ out_vol[dest_bib][k] = out_bib[ReplacePdfBib(DestPath(match, k - 1))]

C8_Witness ==
    /\ pc = "done"
    /\ Len(final_papers) = 2
    /\ Cardinality(DOMAIN out_pdf) = 2
    /\ Len(out_vol[dest_bib]) = 2

\* C9: every fatal exit has a nonzero status and its fatal message on the
\* error stream, none on standard output.
C9_FatalToStderr ==
    pc = "exit" =>
        /\ exit_code = 1
        /\ stderr # <<>>
        /\ Last(stderr) \in FatalMessages
        /\ \A k \in 1..Len(stdout) : stdout[k] \notin FatalMessages

\* C10: the PDFs written are those of the ids 0..n-1; the bibliography file
\* of an id is written after its PDF and before the next PDF; the volume
\* files are written after every PDF and bibliography file; an abort for a
\* missing PDF at position k leaves exactly the files of the ids before it
\* and no volume file.
C10_PrefixOrder ==
    LET n == Cardinality(DOMAIN out_pdf)
        m == Cardinality(DOMAIN out_bib)
    IN  /\ n > 0 =>
              /\ DOMAIN out_pdf = { DestPath(match, j) : j \in 0..(n - 1) }
              /\ DOMAIN out_bib = { ReplacePdfBib(DestPath(match, j)) : j \in 0..(m - 1) }
        /\ m \in {n, n - 1}
        /\ m = n - 1 => (pc = "emit_bib" \/ (pc = "exit" /\ fatal = "bibtex"))
        /\ pc = "emit_bib" => m = n - 1
        /\ out_vol # EmptyMap =>
              /\ n = Len(final_papers)
              /\ m = Len(final_papers)
              /\ dest_bib \in DOMAIN out_vol
        /\ (pc = "exit" /\ fatal = "no_paper_pdf") =>
              /\ n = idx - 1
              /\ m = idx - 1
              /\ out_vol = EmptyMap

C10_Witness ==
    /\ pc = "exit"
    /\ fatal = "no_paper_pdf"
    /\ idx = 3
    /\ Cardinality(DOMAIN out_bib) = 2
====
